---- MODULE Spec2Model ----
(***************************************************************************)
(* Model of the task manager of GestorInteligenteAsync.js                  *)
(* (crearGestorInteligente).  The class and the object-literal variants    *)
(* (GestorInteligenteClase.js, GestorInteligenteObjeto.js) hold the same   *)
(* five fields and the same four methods, statement for statement.         *)
(*                                                                         *)
(* JavaScript runs one job at a time: a step of the model is what runs     *)
(* between two suspension points (await) of the source.                    *)
(***************************************************************************)
EXTENDS Naturals, FiniteSets, Sequences, TLC

(***************************************************************************)
(* Bounds of the model.                                                    *)
(***************************************************************************)
MaxDefinir == 3      \* calls of definirTarea in one behaviour
MaxOnFallo == 2      \* calls of onFallo in one behaviour
MaxIniciar == 2      \* calls of iniciar in one behaviour
MaxInvocaciones == 2 \* the count of invocations of one body saturates here
MaxCopias == 2       \* calls of estadoActual in one behaviour
MaxMutaciones == 2   \* changes the caller makes to the snapshots it holds

Nombres == {"A", "B", "C"}          \* task names the caller uses
Ninguna == "ninguna"                \* Map.get / Map.has of an absent key
Indefinido == "indefinido"          \* estado[x] of a key never written
Corridas == 1..MaxIniciar           \* one id per call of iniciar

(* The caller's inputs.  A task body is an opaque async function: what the *)
(* manager sees of it is whether an invocation resolves or rejects.        *)
Funciones == {"ok", "falla", "variable"}
ListasDeps == SUBSET {"A", "B"}
Originales == {"A", "B"}
Estados == {"pendiente", "completado", "fallido"}

VARIABLES
  tareas,         \* Map nombre -> funcion            (line 21)
  dependencias,   \* Map nombre -> deps               (line 22)
  pendientes,     \* Set of names                     (line 23)
  estado,         \* object nombre -> state           (line 24)
  enCasoDeFallo,  \* Map original -> alternativa      (line 25)
  pc,             \* per call of iniciar: where it stands
  resultados,     \* per call of iniciar: its local object resultados
  tareasListas,   \* per call of iniciar: the ready set of the current wave
  curso,          \* per call of iniciar and wave member: its async callback
  invocaciones,   \* per call of iniciar and name: how often fn() was called
  copias,         \* the objects estadoActual returned, held by the caller
  llamadas        \* how many calls of each method the caller has made

gestor == <<tareas, dependencias, pendientes, estado, enCasoDeFallo>>
corrida == <<pc, resultados, tareasListas, curso, invocaciones>>
vars == <<tareas, dependencias, pendientes, estado, enCasoDeFallo,
          pc, resultados, tareasListas, curso, invocaciones, copias, llamadas>>

(* The value a body resolves to; a missing key of resultados.              *)
Valor(nombre) == <<"valor", nombre>>
Ausente == <<>>
sinResultados == [n \in Nombres |-> Ausente]
sinInvocaciones == [n \in Nombres |-> 0]

(* The async callback of one wave member (lines 96-99): not running,       *)
(* awaiting the promise of a body, back from ejecutarTarea, or rejected.   *)
(* Every call fn() makes a new promise: otra tells the promise awaited     *)
(* from the one this callback awaited before it.                           *)
Libre == [fase |-> "libre", nombre |-> Ninguna, fn |-> Ninguna, otra |-> FALSE]
Retorno == [fase |-> "retorno", nombre |-> Ninguna, fn |-> Ninguna, otra |-> FALSE]
EnEspera(nombre, fn) == [fase |-> "await", nombre |-> nombre, fn |-> fn, otra |-> FALSE]
Lanzada == [fase |-> "lanzada", nombre |-> Ninguna, fn |-> Ninguna, otra |-> FALSE]
Nueva(llamada, antes) ==
  IF llamada.fase = "await" THEN [llamada EXCEPT !.otra = ~antes.otra] ELSE llamada

Init ==
  /\ tareas = [n \in Nombres |-> Ninguna]
  /\ dependencias = [n \in Nombres |-> {}]
  /\ pendientes = {}
  /\ estado = [n \in Nombres |-> Indefinido]
  /\ enCasoDeFallo = [n \in Nombres |-> Ninguna]
  /\ pc = [r \in Corridas |-> "nueva"]
  /\ resultados = [r \in Corridas |-> sinResultados]
  /\ tareasListas = [r \in Corridas |-> {}]
  /\ curso = [r \in Corridas |-> [m \in Nombres |-> Libre]]
  /\ invocaciones = [r \in Corridas |-> sinInvocaciones]
  /\ copias = <<>>
  /\ llamadas = [definirTarea |-> 0, onFallo |-> 0, iniciar |-> 0, mutar |-> 0]

(* The definition that does not add the name to pendientes.                *)
definirSinPendiente(nombre, funcion, deps) ==
  /\ llamadas.definirTarea < MaxDefinir
  /\ tareas' = [tareas EXCEPT ![nombre] = funcion]
  /\ dependencias' = [dependencias EXCEPT ![nombre] = deps]
  /\ estado' = [estado EXCEPT ![nombre] = "pendiente"]
  /\ llamadas' = [llamadas EXCEPT !.definirTarea = @ + 1]
  /\ UNCHANGED <<pendientes, enCasoDeFallo, corrida, copias>>

(* The definition that leaves a name already registered as it is.          *)
definirSiNueva(nombre, funcion, deps) ==
  /\ llamadas.definirTarea < MaxDefinir
  /\ IF tareas[nombre] = Ninguna
     THEN /\ tareas' = [tareas EXCEPT ![nombre] = funcion]
          /\ dependencias' = [dependencias EXCEPT ![nombre] = deps]
          /\ estado' = [estado EXCEPT ![nombre] = "pendiente"]
          /\ pendientes' = pendientes \cup {nombre}
     ELSE UNCHANGED <<tareas, dependencias, estado, pendientes>>
  /\ llamadas' = [llamadas EXCEPT !.definirTarea = @ + 1]
  /\ UNCHANGED <<enCasoDeFallo, corrida, copias>>

(***************************************************************************)
(* definirTarea(nombre, funcion, deps), lines 34-39.                       *)
(***************************************************************************)
definirTarea(nombre, funcion, deps) ==
  /\ llamadas.definirTarea < MaxDefinir
  /\ tareas' = [tareas EXCEPT ![nombre] = funcion]
  /\ dependencias' = [dependencias EXCEPT ![nombre] = deps]
  /\ estado' = [estado EXCEPT ![nombre] = "pendiente"]
  /\ pendientes' = pendientes \cup {nombre}
  /\ llamadas' = [llamadas EXCEPT !.definirTarea = @ + 1]
  /\ UNCHANGED <<enCasoDeFallo, corrida, copias>>

(***************************************************************************)
(* onFallo(tareaOriginal, tareaAlternativa), lines 47-49.                  *)
(***************************************************************************)
onFallo(tareaOriginal, tareaAlternativa) ==
  /\ llamadas.onFallo < MaxOnFallo
  /\ enCasoDeFallo' = [enCasoDeFallo EXCEPT ![tareaOriginal] = tareaAlternativa]
  /\ llamadas' = [llamadas EXCEPT !.onFallo = @ + 1]
  /\ UNCHANGED <<tareas, dependencias, pendientes, estado, corrida, copias>>

(***************************************************************************)
(* ejecutarTarea(nombre, resultados) up to its first suspension, lines     *)
(* 58-63: the lookup of fn, the throw for a name without one, and the call *)
(* fn(), whose promise the function then awaits.                           *)
(***************************************************************************)
ejecutarTarea(nombre) ==
  IF tareas[nombre] = Ninguna THEN Lanzada
  ELSE EnEspera(nombre, tareas[nombre])

(* The bodies a set of calls of ejecutarTarea invokes (fn() of line 63).   *)
Invocar(cuenta, nombres) ==
  [n \in Nombres |->
     IF n \in nombres /\ tareas[n] # Ninguna /\ cuenta[n] < MaxInvocaciones
     THEN cuenta[n] + 1 ELSE cuenta[n]]

(* The filter with a lock: a task that a run has dispatched and not yet     *)
(* deleted is not ready for another run.                                   *)
ListasConCerrojo ==
  {tarea \in pendientes :
     /\ \A dep \in dependencias[tarea] : estado[dep] = "completado"
     /\ \A q \in Corridas : curso[q][tarea].fase = "libre"}

(* The filter left out: every pending task is taken as ready.              *)
ListasTodas == pendientes

(* The filter written with some where the source has every.               *)
ListasAlguna ==
  {tarea \in pendientes :
     \E dep \in dependencias[tarea] : estado[dep] = "completado"}

(***************************************************************************)
(* The filter of lines 86-89: the tasks of pendientes whose every          *)
(* dependency has estado 'completado'.                                     *)
(***************************************************************************)
Listas ==
  {tarea \in pendientes :
     \A dep \in dependencias[tarea] : estado[dep] = "completado"}

(***************************************************************************)
(* One pass of the while loop of iniciar, lines 85-99, up to the await of  *)
(* Promise.all: the loop test, the ready set, the break of an empty ready  *)
(* set, and the synchronous start of every callback of the wave.  res is   *)
(* the object resultados of this call of iniciar, cuenta the count of the  *)
(* invocations it has made so far.                                         *)
(***************************************************************************)
vuelta(r, res, cuenta) ==
  /\ resultados' = [resultados EXCEPT ![r] = res]
  /\ IF pendientes = {} \/ Listas = {}
     THEN /\ pc' = [pc EXCEPT ![r] = "devuelta"]
          /\ tareasListas' = [tareasListas EXCEPT ![r] = {}]
          /\ invocaciones' = [invocaciones EXCEPT ![r] = cuenta]
          /\ UNCHANGED curso
     ELSE /\ tareasListas' = [tareasListas EXCEPT ![r] = Listas]
          /\ curso' = [curso EXCEPT ![r] =
               [m \in Nombres |-> IF m \in Listas THEN ejecutarTarea(m) ELSE Libre]]
          /\ invocaciones' = [invocaciones EXCEPT ![r] = Invocar(cuenta, Listas)]
          /\ pc' = [pc EXCEPT ![r] =
               IF \E m \in Listas : ejecutarTarea(m) = Lanzada
               THEN "lanzada" ELSE "espera"]
  /\ UNCHANGED <<gestor, copias>>

(***************************************************************************)
(* iniciar(), lines 83-102, from the call to its first suspension.  A call *)
(* takes the first id that no call in progress holds.                      *)
(***************************************************************************)
iniciar(r) ==
  /\ llamadas.iniciar < MaxIniciar
  /\ pc[r] # "espera"
  /\ \A q \in Corridas : q < r => pc[q] = "espera"
  /\ vuelta(r, sinResultados, sinInvocaciones)
  /\ llamadas' = [llamadas EXCEPT !.iniciar = @ + 1]

(* The result stored under the name of the wave member, not under the name *)
(* of the task that produced it.                                           *)
resuelveBajoOriginal(r, m) ==
  /\ curso[r][m].fase = "await"
  /\ curso[r][m].fn \in {"ok", "variable"}
  /\ LET nombre == curso[r][m].nombre IN
       /\ resultados' = [resultados EXCEPT ![r][m] = Valor(nombre)]
       /\ estado' = [estado EXCEPT ![nombre] = "completado"]
  /\ curso' = [curso EXCEPT ![r][m] = Retorno]
  /\ UNCHANGED <<tareas, dependencias, pendientes, enCasoDeFallo,
                 pc, tareasListas, invocaciones, copias, llamadas>>

(***************************************************************************)
(* The awaited body resolves: lines 63-65, then ejecutarTarea returns.     *)
(***************************************************************************)
resuelve(r, m) ==
  /\ curso[r][m].fase = "await"
  /\ curso[r][m].fn \in {"ok", "variable"}
  /\ LET nombre == curso[r][m].nombre IN
       /\ resultados' = [resultados EXCEPT ![r][nombre] = Valor(nombre)]
       /\ estado' = [estado EXCEPT ![nombre] = "completado"]
  /\ curso' = [curso EXCEPT ![r][m] = Retorno]
  /\ UNCHANGED <<tareas, dependencias, pendientes, enCasoDeFallo,
                 pc, tareasListas, invocaciones, copias, llamadas>>

(* The lookup without the test tareas.has: any name registered as an       *)
(* alternative is taken, a task or not.                                    *)
alternativaSinHas(nombre) == enCasoDeFallo[nombre]

(***************************************************************************)
(* The lookup and test of lines 70-71: the alternative of a failed task,   *)
(* Ninguna when there is none to run.                                      *)
(***************************************************************************)
alternativa(nombre) ==
  IF enCasoDeFallo[nombre] # Ninguna /\ tareas[enCasoDeFallo[nombre]] # Ninguna
  THEN enCasoDeFallo[nombre] ELSE Ninguna

(* The rejection left uncaught: it leaves ejecutarTarea and rejects the     *)
(* Promise.all of the wave, and with it iniciar.                           *)
fallaSinCatch(r, m) ==
  /\ curso[r][m].fase = "await"
  /\ curso[r][m].fn \in {"falla", "variable"}
  /\ curso' = [curso EXCEPT ![r][m] = Lanzada]
  /\ pc' = [pc EXCEPT ![r] = "lanzada"]
  /\ UNCHANGED <<gestor, resultados, tareasListas, invocaciones, copias, llamadas>>

(* The catch taking an alternative for the wave member only: a failing     *)
(* alternative ends the chain, whatever alternative it has itself.         *)
fallaSinRecursion(r, m) ==
  /\ curso[r][m].fase = "await"
  /\ curso[r][m].fn \in {"falla", "variable"}
  /\ LET nombre == curso[r][m].nombre
         alt == IF nombre = m THEN alternativa(nombre) ELSE Ninguna
     IN /\ estado' = [estado EXCEPT ![nombre] = "fallido"]
        /\ IF alt = Ninguna
           THEN /\ curso' = [curso EXCEPT ![r][m] = Retorno]
                /\ UNCHANGED <<invocaciones, pc>>
           ELSE /\ curso' = [curso EXCEPT ![r][m] = Nueva(ejecutarTarea(alt), @)]
                /\ invocaciones' = [invocaciones EXCEPT ![r] = Invocar(@, {alt})]
                /\ UNCHANGED pc
  /\ UNCHANGED <<tareas, dependencias, pendientes, enCasoDeFallo,
                 resultados, tareasListas, copias, llamadas>>

(***************************************************************************)
(* The awaited body rejects: the catch of lines 66-75.  With an            *)
(* alternative, ejecutarTarea is called on it at once (line 73) and this   *)
(* callback awaits that body next; without, ejecutarTarea returns.         *)
(***************************************************************************)
falla(r, m) ==
  /\ curso[r][m].fase = "await"
  /\ curso[r][m].fn \in {"falla", "variable"}
  /\ LET nombre == curso[r][m].nombre
         alt == alternativa(nombre)
     IN /\ estado' = [estado EXCEPT ![nombre] = "fallido"]
        /\ IF alt = Ninguna
           THEN /\ curso' = [curso EXCEPT ![r][m] = Retorno]
                /\ UNCHANGED <<invocaciones, pc>>
           ELSE /\ curso' = [curso EXCEPT ![r][m] = Nueva(ejecutarTarea(alt), @)]
                /\ invocaciones' = [invocaciones EXCEPT ![r] = Invocar(@, {alt})]
                /\ pc' = [pc EXCEPT ![r] =
                     IF ejecutarTarea(alt) = Lanzada /\ @ = "espera"
                     THEN "lanzada" ELSE @]
  /\ UNCHANGED <<tareas, dependencias, pendientes, enCasoDeFallo,
                 resultados, tareasListas, copias, llamadas>>

(***************************************************************************)
(* The callback of a wave member goes on after its await: line 98.         *)
(***************************************************************************)
borrar(r, m) ==
  /\ curso[r][m].fase = "retorno"
  /\ pendientes' = pendientes \ {m}
  /\ curso' = [curso EXCEPT ![r][m] = Libre]
  /\ UNCHANGED <<tareas, dependencias, estado, enCasoDeFallo,
                 pc, resultados, tareasListas, invocaciones, copias, llamadas>>

(* The loop written with if where the source has while: iniciar returns    *)
(* after its first wave.                                                   *)
siguienteUnaOla(r) ==
  /\ pc[r] = "espera"
  /\ \A m \in Nombres : curso[r][m].fase = "libre"
  /\ pc' = [pc EXCEPT ![r] = "devuelta"]
  /\ tareasListas' = [tareasListas EXCEPT ![r] = {}]
  /\ UNCHANGED <<gestor, resultados, curso, invocaciones, copias, llamadas>>

(* The loop going round as soon as one callback of the wave has returned,  *)
(* the others still awaited.                                               *)
siguienteSinBarrera(r) ==
  /\ pc[r] = "espera"
  /\ \E m \in tareasListas[r] : curso[r][m].fase = "libre"
  /\ vuelta(r, resultados[r], invocaciones[r])
  /\ UNCHANGED llamadas

(***************************************************************************)
(* Promise.all of line 96 resolves, every callback of the wave having      *)
(* returned: iniciar goes round the loop again.                            *)
(***************************************************************************)
siguiente(r) ==
  /\ pc[r] = "espera"
  /\ \A m \in Nombres : curso[r][m].fase = "libre"
  /\ vuelta(r, resultados[r], invocaciones[r])
  /\ UNCHANGED llamadas

(* What the object the caller holds as copias[i] reads as: a snapshot is   *)
(* an object of its own ("nuevo") or the object estado itself ("estado").  *)
Contenido(i) == IF copias[i].objeto = "estado" THEN estado ELSE copias[i].mapa

(* estadoActual handing out the object estado itself, not a copy of it.    *)
estadoActualSinCopia ==
  /\ Len(copias) < MaxCopias
  /\ copias' = Append(copias, [objeto |-> "estado", mapa |-> estado])
  /\ UNCHANGED <<gestor, corrida, llamadas>>

(***************************************************************************)
(* estadoActual(), line 108: a new object with the entries of estado.      *)
(***************************************************************************)
estadoActual ==
  /\ Len(copias) < MaxCopias
  /\ copias' = Append(copias, [objeto |-> "nuevo", mapa |-> estado])
  /\ UNCHANGED <<gestor, corrida, llamadas>>

(***************************************************************************)
(* The caller writes to an object estadoActual returned to it: it sets the *)
(* entry of nombre to valor, or deletes the entry (valor = Indefinido).    *)
(* The write lands in the object the caller holds (callers of line 108).   *)
(***************************************************************************)
mutarCopia(i, nombre, valor) ==
  /\ llamadas.mutar < MaxMutaciones
  /\ i \in 1..Len(copias)
  /\ Contenido(i)[nombre] # valor
  /\ IF copias[i].objeto = "estado"
     THEN /\ estado' = [estado EXCEPT ![nombre] = valor]
          /\ UNCHANGED copias
     ELSE /\ copias' = [copias EXCEPT ![i].mapa[nombre] = valor]
          /\ UNCHANGED estado
  /\ llamadas' = [llamadas EXCEPT !.mutar = @ + 1]
  /\ UNCHANGED <<tareas, dependencias, pendientes, enCasoDeFallo, corrida>>

Definir == \E n \in Nombres, f \in Funciones, d \in ListasDeps : definirTarea(n, f, d)
OnFallo == \E o \in Originales, a \in Nombres : onFallo(o, a)
Iniciar == \E r \in Corridas : iniciar(r)
Resuelve == \E r \in Corridas, m \in Nombres : resuelve(r, m)
Falla == \E r \in Corridas, m \in Nombres : falla(r, m)
Borrar == \E r \in Corridas, m \in Nombres : borrar(r, m)
Siguiente == \E r \in Corridas : siguiente(r)

MutarCopia ==
  \E i \in 1..MaxCopias, n \in Nombres, v \in Estados \cup {Indefinido} :
    mutarCopia(i, n, v)

Next ==
  \/ Definir \/ OnFallo \/ Iniciar \/ Resuelve \/ Falla \/ Borrar \/ Siguiente
  \/ estadoActual \/ MutarCopia

Spec == Init /\ [][Next]_vars

(***************************************************************************)
(* The use the examples of the source make of a manager (lines 125-152,    *)
(* 164-185): the caller defines its tasks and alternatives, then calls     *)
(* iniciar once and waits for it.                                          *)
(***************************************************************************)
SinIniciar == \A r \in Corridas : pc[r] = "nueva"
NextPrimera ==
  \/ SinIniciar /\ Definir
  \/ SinIniciar /\ OnFallo
  \/ SinIniciar /\ Iniciar
  \/ Resuelve \/ Falla \/ Borrar \/ Siguiente
SpecPrimera == Init /\ [][NextPrimera]_vars

(***************************************************************************)
(* Vocabulary of the properties.                                           *)
(***************************************************************************)
Registradas == {n \in Nombres : tareas[n] # Ninguna}
Devuelta(r) == pc[r] = "devuelta"

(* n reaches m along one or more dependency edges.                         *)
Alcanza(n, m) ==
  \/ m \in dependencias[n]
  \/ \E x \in dependencias[n] : m \in dependencias[x]
  \/ \E x \in dependencias[n] : \E y \in dependencias[x] : m \in dependencias[y]
EnCiclo(n) == Alcanza(n, n)

(***************************************************************************)
(* C1.  A task's state becomes 'completado' only when every one of its     *)
(* declared dependencies has state 'completado' at that moment, whether    *)
(* the task ran as a member of a wave or as the alternative of a failed    *)
(* task.                                                                   *)
(***************************************************************************)
C1_CompletadaTrasDependencias ==
  [][\A n \in Nombres :
       (estado[n] # "completado" /\ estado'[n] = "completado")
       => \A dep \in dependencias[n] : estado[dep] = "completado"]_vars

(***************************************************************************)
(* C2.  With an acyclic dependency graph, every dependency registered and  *)
(* every body succeeding, a first run ends with pendientes empty, every    *)
(* registered task 'completado', and resultados holding exactly one entry  *)
(* per registered task, under the task's own name.                         *)
(***************************************************************************)
TodoResuelve ==
  /\ \A n \in Registradas : ~EnCiclo(n)
  /\ \A n \in Registradas : dependencias[n] \subseteq Registradas
  /\ \A n \in Registradas : tareas[n] = "ok"

C2_PrimeraCorridaCompleta ==
  \A r \in Corridas :
    (Devuelta(r) /\ TodoResuelve)
    => /\ pendientes = {}
       /\ \A n \in Registradas : estado[n] = "completado"
       /\ \A n \in Nombres :
            resultados[r][n] = IF n \in Registradas THEN Valor(n) ELSE Ausente

(* The chain validar -> procesar -> subir of the README, run to its end.   *)
C2_Testigo ==
  /\ Devuelta(1)
  /\ TodoResuelve
  /\ Registradas = Nombres
  /\ dependencias["A"] = {} /\ dependencias["B"] = {"A"} /\ dependencias["C"] = {"B"}
  /\ \A n \in Nombres : resultados[1][n] = Valor(n)

(***************************************************************************)
(* C3.  A failure of a task body is never propagated out of iniciar as an  *)
(* exception: the failing task's state is set to 'fallido', every other    *)
(* task of the same wave is still executed, and so is every task that ends *)
(* up with all its dependencies 'completado'; iniciar ends by returning.   *)
(***************************************************************************)
C3_NadaLanzado ==
  \A r \in Corridas :
    /\ pc[r] # "lanzada"
    /\ \A m \in Nombres : curso[r][m].fase # "lanzada"

C3_OlaEntera ==
  \A r \in Corridas :
    pc[r] = "espera" => \A m \in tareasListas[r] : invocaciones[r][m] >= 1

C3_NadaListoAlVolver ==
  \A r \in Corridas : Devuelta(r) => Listas = {}

C3_PasoDeFallo ==
  \A r \in Corridas, m \in Nombres :
    (/\ curso[r][m].fase = "await"
     /\ curso[r][m].fn = "falla"
     /\ curso'[r][m] # curso[r][m])
    => /\ estado'[curso[r][m].nombre] = "fallido"
       /\ pc'[r] = pc[r]
       /\ resultados' = resultados
       /\ \A otro \in Nombres \ {m} : curso'[r][otro] = curso[r][otro]

JustaPrimera ==
  /\ SpecPrimera
  /\ \A r \in Corridas, m \in Nombres :
       /\ WF_vars(resuelve(r, m) \/ falla(r, m))
       /\ WF_vars(borrar(r, m))
  /\ \A r \in Corridas : WF_vars(siguiente(r))

(***************************************************************************)
(* C4.  Provided every invocation of a task body settles, every run        *)
(* eventually halts and returns its resultados, whatever the registry, the *)
(* dependency graph and the table of alternatives (chains of any length, a *)
(* task that is its own alternative, cycles such as A -> B -> A).          *)
(***************************************************************************)
C4_TodaCorridaVuelve ==
  \A r \in Corridas : (pc[r] = "espera") ~> Devuelta(r)

(***************************************************************************)
(* C5.  When the ready set of a wave is empty and pendientes is not, the   *)
(* run halts at once without raising, returns the resultados gathered so   *)
(* far, executes nothing more, and every name left in pendientes has state *)
(* 'pendiente' and no entry in resultados.                                 *)
(***************************************************************************)
C5_AtascoDejaPendientes ==
  \A r \in Corridas :
    (Devuelta(r) /\ pendientes # {})
    => /\ \A m \in Nombres : curso[r][m] = Libre
       /\ \A n \in pendientes :
            estado[n] = "pendiente" /\ resultados[r][n] = Ausente

(***************************************************************************)
(* C6.  If task a declares a dependency on task b and the body of b fails, *)
(* the executable of a is never invoked in that run, the state of a stays  *)
(* 'pendiente' and the run ends by stall, not by exception; with or        *)
(* without an alternative of b that succeeds.                              *)
(***************************************************************************)
C6_DependienteNoSeEjecuta ==
  \A r \in Corridas, a \in Registradas, b \in Registradas :
    (b \in dependencias[a] /\ tareas[b] = "falla" /\ pc[r] # "nueva")
    => /\ invocaciones[r][a] = 0
       /\ estado[a] = "pendiente"
       /\ pc[r] # "lanzada"
       /\ Devuelta(r) => a \in pendientes

(***************************************************************************)
(* C7.  If the body of task a fails, a has the registered alternative f, f *)
(* is a registered task and the body of f succeeds, then when the run      *)
(* returns: resultados has the value of f under the key f and no entry     *)
(* under the key a, the state of a is 'fallido' and that of f is           *)
(* 'completado'.                                                           *)
(***************************************************************************)
C7_AlternativaBajoSuNombre ==
  \A r \in Corridas, a \in Registradas, f \in Registradas :
    (/\ Devuelta(r)
     /\ invocaciones[r][a] >= 1
     /\ tareas[a] = "falla"
     /\ enCasoDeFallo[a] = f
     /\ tareas[f] = "ok")
    => /\ resultados[r][f] = Valor(f)
       /\ resultados[r][a] = Ausente
       /\ estado[a] = "fallido"
       /\ estado[f] = "completado"

(* Example 2 of the source: cargarImagen (A) fails, modoManual (B) is its  *)
(* alternative, procesar (C) waits for cargarImagen.                       *)
C7_Testigo ==
  /\ Devuelta(1)
  /\ tareas = [n \in Nombres |-> IF n = "A" THEN "falla" ELSE "ok"]
  /\ dependencias = [n \in Nombres |-> IF n = "C" THEN {"A"} ELSE {}]
  /\ enCasoDeFallo["A"] = "B"
  /\ resultados[1] = [n \in Nombres |-> IF n = "B" THEN Valor("B") ELSE Ausente]
  /\ estado = [A |-> "fallido", B |-> "completado", C |-> "pendiente"]
  /\ pendientes = {"C"}

(***************************************************************************)
(* C8.  A task that lies on a dependency cycle (a task that depends on     *)
(* itself included) is never placed in the ready set of a wave; when every *)
(* registered task lies on such a cycle, iniciar returns empty resultados  *)
(* without raising and every state is still 'pendiente'.                   *)
(***************************************************************************)
C8_CicloNuncaLista ==
  \A r \in Corridas :
    /\ \A n \in Registradas : EnCiclo(n) => n \notin tareasListas[r]
    /\ (Devuelta(r) /\ \A n \in Registradas : EnCiclo(n))
       => /\ resultados[r] = sinResultados
          /\ \A n \in Registradas : estado[n] = "pendiente"

(***************************************************************************)
(* C9.  When a run returns, every key of its resultados is a task whose    *)
(* state is 'completado': resultados never holds a value for a task that   *)
(* ends 'fallido' or 'pendiente', whatever the bodies do, a body that      *)
(* succeeds on one invocation and fails on another included.               *)
(***************************************************************************)
C9_ResultadosSoloDeCompletadas ==
  \A r \in Corridas :
    Devuelta(r)
    => \A n \in Nombres : resultados[r][n] # Ausente => estado[n] = "completado"

(***************************************************************************)
(* A caller that takes snapshots of the state before and during a first    *)
(* run and writes to them, over a registry of two tasks.                   *)
(***************************************************************************)
DefinirDos ==
  \E n \in {"A", "B"}, f \in {"ok", "falla"}, d \in {{}, {"A"}} :
    definirTarea(n, f, d)
MutarDos ==
  \E i \in 1..MaxCopias, n \in {"A", "B"}, v \in {"completado", Indefinido} :
    mutarCopia(i, n, v)
NextCopias ==
  \/ SinIniciar /\ DefinirDos
  \/ SinIniciar /\ Iniciar
  \/ Resuelve \/ Falla \/ Borrar \/ Siguiente
  \/ estadoActual \/ MutarDos
SpecCopias == Init /\ [][NextCopias]_vars

(***************************************************************************)
(* C10.  estadoActual changes nothing in the manager and returns a fresh   *)
(* copy of the name -> state map: two calls with no operation of the       *)
(* manager between them return equal maps, and changing, adding or         *)
(* removing an entry of a returned map changes neither the state map of    *)
(* the manager, nor any other returned snapshot, nor the ready set of a    *)
(* later run.                                                              *)
(***************************************************************************)
ContenidoTras(i) == IF copias'[i].objeto = "estado" THEN estado' ELSE copias'[i].mapa
PasoEstadoActual == Len(copias') = Len(copias) + 1
PasoMutar == llamadas'.mutar # llamadas.mutar

C10_PasoDeCopia ==
  /\ PasoEstadoActual =>
       /\ UNCHANGED <<gestor, corrida>>
       /\ ContenidoTras(Len(copias')) = estado
       /\ \A i \in 1..Len(copias) : ContenidoTras(i) = Contenido(i)
       /\ \A i \in 1..Len(copias) :
            Contenido(i) = estado => ContenidoTras(Len(copias')) = ContenidoTras(i)
  /\ PasoMutar =>
       /\ UNCHANGED <<gestor, corrida>>
       /\ Listas' = Listas
       /\ \E i \in 1..Len(copias) :
            /\ ContenidoTras(i) # Contenido(i)
            /\ \A j \in 1..Len(copias) : j # i => ContenidoTras(j) = Contenido(j)

C10_CopiaFresca == [][C10_PasoDeCopia]_vars

(* Two snapshots taken before the run; the caller marks A 'completado' in  *)
(* the first; the run then starts A alone, B waiting for A.                *)
C10_Testigo ==
  /\ Len(copias) = 2
  /\ llamadas.mutar = 1
  /\ Contenido(1)["A"] = "completado" /\ Contenido(2)["A"] = "pendiente"
  /\ dependencias["B"] = {"A"}
  /\ pc[1] = "espera" /\ tareasListas[1] = {"A"}
  /\ estado = [A |-> "pendiente", B |-> "pendiente", C |-> Indefinido]

(***************************************************************************)
(* C11.  If the body of a task fails and the task has no alternative, or   *)
(* one that is not a registered task, the failure is terminal and silent:  *)
(* no entry is added to resultados, the state of the task stays 'fallido', *)
(* nothing is raised, no other executable is invoked on its behalf, and    *)
(* the name of the task is removed from pendientes, so that the barrier of *)
(* the wave can resolve.                                                   *)
(***************************************************************************)
SinAlternativa(n) ==
  enCasoDeFallo[n] = Ninguna \/ enCasoDeFallo[n] \notin Registradas

C11_PasoTerminal ==
  \A r \in Corridas, m \in Nombres :
    (/\ curso[r][m].fase = "await"
     /\ curso[r][m].fn = "falla"
     /\ SinAlternativa(curso[r][m].nombre)
     /\ curso'[r][m] # curso[r][m])
    => /\ resultados' = resultados
       /\ invocaciones' = invocaciones
       /\ estado'[curso[r][m].nombre] = "fallido"
       /\ pc'[r] = pc[r]
       /\ curso'[r][m] = Retorno

C11_AlVolver ==
  \A r \in Corridas, n \in Registradas :
    (Devuelta(r) /\ invocaciones[r][n] >= 1 /\ tareas[n] = "falla" /\ SinAlternativa(n))
    => /\ resultados[r][n] = Ausente
       /\ estado[n] = "fallido"
       /\ n \notin pendientes

C11_FalloTerminal == [][C11_PasoTerminal]_vars /\ []C11_AlVolver

(***************************************************************************)
(* Steps of the loop of iniciar, told from the variables: the call of      *)
(* iniciar that takes the run id r, and a pass of the loop of run r (a     *)
(* call of iniciar or the return of Promise.all), which computes the       *)
(* ready set.                                                              *)
(***************************************************************************)
TodasLibres(r) == \A m \in Nombres : curso[r][m].fase = "libre"
PasoIniciar(r) ==
  /\ llamadas'.iniciar # llamadas.iniciar
  /\ pc[r] # "espera"
  /\ \A q \in Corridas : q < r => pc[q] = "espera"
PasoSiguiente(r) ==
  /\ llamadas'.iniciar = llamadas.iniciar
  /\ pc[r] = "espera"
  /\ TodasLibres(r)
  /\ (pc'[r] # pc[r] \/ curso'[r] # curso[r])
PasoDeVuelta(r) == PasoIniciar(r) \/ PasoSiguiente(r)

(***************************************************************************)
(* C14.  The ready set of each wave is exactly the set of the names that   *)
(* are in pendientes when the wave begins and whose every declared         *)
(* dependency has estado 'completado', and exactly these are dispatched: a *)
(* pending task without dependencies is in it (on a first run, every task  *)
(* with an empty dependency list is in wave 1), and a task with a          *)
(* dependency on an unregistered name is never in it.                      *)
(***************************************************************************)
C14_PasoDeOla ==
  \A r \in Corridas :
    PasoDeVuelta(r) =>
      LET listas == {t \in Nombres :
                       /\ t \in pendientes
                       /\ \A dep \in Nombres :
                            dep \in dependencias[t] => estado[dep] = "completado"}
      IN /\ tareasListas'[r] = listas
         /\ {m \in Nombres : curso'[r][m].fase # "libre"} = listas
         /\ \A t \in pendientes : dependencias[t] = {} => t \in tareasListas'[r]
         /\ \A t \in pendientes :
              (\E dep \in dependencias[t] : tareas[dep] = Ninguna)
              => t \notin tareasListas'[r]
         /\ (PasoIniciar(r) /\ llamadas.iniciar = 0) =>
              \A t \in Registradas : dependencias[t] = {} => t \in tareasListas'[r]

C14_ListasExactas == [][C14_PasoDeOla]_vars

C14_Testigo ==
  /\ pc[1] = "espera"
  /\ tareasListas[1] = {"A"}
  /\ curso[1]["A"].fase = "await"
  /\ "C" \in pendientes
  /\ dependencias["C"] = {"B"}
  /\ tareas["B"] = Ninguna

(***************************************************************************)
(* C15.  Waves are synchronized by a barrier.  While a callback of the     *)
(* wave of run r has not returned (the body of a member, or of an          *)
(* alternative run in its place, is awaited, or its delete is to come),    *)
(* the ready set of r is not computed again, iniciar does not go on, and   *)
(* no callback is started: a task outside the ready set, its last          *)
(* dependency completed early in the wave or not, is not dispatched, and   *)
(* a body is invoked then only as the alternative of a task that failed.   *)
(***************************************************************************)
C15_PasoEnOla ==
  \A r \in Corridas :
    (pc[r] = "espera" /\ ~TodasLibres(r)) =>
      /\ tareasListas'[r] = tareasListas[r]
      /\ pc'[r] = "espera"
      /\ \A m \in Nombres :
           curso[r][m].fase = "libre" => curso'[r][m].fase = "libre"
      /\ \A t \in Nombres :
           invocaciones'[r][t] # invocaciones[r][t] =>
             \E m \in tareasListas[r] :
               /\ curso[r][m].fase = "await"
               /\ enCasoDeFallo[curso[r][m].nombre] = t
               /\ estado'[curso[r][m].nombre] = "fallido"
               /\ curso'[r][m].nombre = t

C15_SoloLaOla ==
  \A r \in Corridas, m \in Nombres :
    curso[r][m].fase # "libre" => pc[r] = "espera" /\ m \in tareasListas[r]

C16_PasoDeEstado ==
  (llamadas'.definirTarea = llamadas.definirTarea) =>
    \A n \in Nombres :
      /\ estado[n] = "completado" => estado'[n] = "completado"
      /\ estado'[n] = "pendiente" => estado[n] = "pendiente"
      /\ estado'[n] # estado[n] => estado[n] \in {"pendiente", "fallido"}

C16_MaquinaDeEstados == [][C16_PasoDeEstado]_vars

(***************************************************************************)
(* C20.  Within one run the body of no task is invoked more than once,     *)
(* its dispatch as a member of a wave and its execution as the alternative *)
(* of another task counted together.                                       *)
(***************************************************************************)
C20_UnaInvocacionPorCorrida ==
  \A r \in Corridas, n \in Nombres : invocaciones[r][n] <= 1

(***************************************************************************)
(* C17.  The substitution of an alternative is applied again and again     *)
(* inside the callback of the wave member: when the body awaited there     *)
(* fails and the task has a registered alternative, the alternative is     *)
(* executed next in the same callback, and so on down the chain; the       *)
(* chain ends at the first body that resolves or the first failing task    *)
(* without a registered alternative, and only then is the wave member      *)
(* removed from pendientes.                                                *)
(***************************************************************************)
C17_PasoDeBorrar ==
  \A m \in Nombres :
    (m \in pendientes /\ m \notin pendientes') =>
      \E r \in Corridas :
        curso[r][m].fase = "retorno" /\ curso'[r][m].fase = "libre"

C17_PasoDeCadena ==
  \A r \in Corridas, m \in Nombres :
    LET antes == curso[r][m]
        tras == curso'[r][m]
    IN /\ (antes.fase = "await" /\ tras # antes) =>
            \/ /\ estado'[antes.nombre] = "completado"
               /\ tras.fase = "retorno"
            \/ /\ estado'[antes.nombre] = "fallido"
               /\ SinAlternativa(antes.nombre)
               /\ tras.fase = "retorno"
            \/ /\ estado'[antes.nombre] = "fallido"
               /\ ~SinAlternativa(antes.nombre)
               /\ tras.fase = "await"
               /\ tras.nombre = enCasoDeFallo[antes.nombre]
               /\ tras.fn = tareas[tras.nombre]
       /\ (antes.fase = "await" /\ tras # antes) => pendientes' = pendientes

C17_MiembroPendiente ==
  \A r \in Corridas, m \in Nombres :
    curso[r][m].fase \in {"await", "retorno"} => m \in pendientes

C17_CadenaDeAlternativas ==
  [][C17_PasoDeCadena /\ C17_PasoDeBorrar]_vars /\ []C17_MiembroPendiente

C17_Testigo ==
  /\ enCasoDeFallo["A"] = "B"
  /\ enCasoDeFallo["B"] = "C"
  /\ estado["A"] = "fallido"
  /\ estado["B"] = "fallido"
  /\ curso[1]["A"].fase = "await"
  /\ curso[1]["A"].nombre = "C"
  /\ "A" \in pendientes

(***************************************************************************)
(* A manager used again and again (the handle of lines 104-109 stays       *)
(* usable after iniciar returns): between two runs the caller may define   *)
(* tasks, again or anew, and register alternatives; it awaits each call of *)
(* iniciar before the next call on the manager.                            *)
(***************************************************************************)
EnReposo == \A r \in Corridas : pc[r] # "espera"
NextSeguidas ==
  \/ EnReposo /\ DefinirDos
  \/ EnReposo /\ OnFallo
  \/ EnReposo /\ Iniciar
  \/ Resuelve \/ Falla \/ Borrar \/ Siguiente
SpecSeguidas == Init /\ [][NextSeguidas]_vars

C12_PasoIniciar ==
  \A r \in Corridas :
    PasoIniciar(r) =>
      /\ pendientes \subseteq Registradas
      /\ llamadas.iniciar = 0 => pendientes = Registradas
      /\ \A n \in Registradas :
           /\ n \notin pendientes => estado[n] \in {"completado", "fallido"}
           /\ estado[n] = "pendiente" => n \in pendientes

C13_PasoDefinir ==
  (llamadas'.definirTarea # llamadas.definirTarea) =>
    \E n \in Nombres :
      /\ tareas'[n] # Ninguna
      /\ estado'[n] = "pendiente"
      /\ pendientes' = pendientes \cup {n}
      /\ \A o \in Nombres \ {n} :
           /\ tareas'[o] = tareas[o]
           /\ dependencias'[o] = dependencias[o]
           /\ estado'[o] = estado[o]
      /\ enCasoDeFallo' = enCasoDeFallo
      /\ UNCHANGED <<corrida, copias>>

(* The call made with (n, f, d) stores f and d: the step that definirTarea *)
(* takes from a state is the one and only step that changes its count.     *)
C13_PasoConArgumentos ==
  \A n \in {"A", "B"}, f \in {"ok", "falla"}, d \in {{}, {"A"}} :
    definirTarea(n, f, d) =>
      /\ tareas'[n] = f
      /\ dependencias'[n] = d
      /\ estado'[n] = "pendiente"
      /\ n \in pendientes'

C13_NuncaLanza ==
  \A n \in {"A", "B"}, f \in {"ok", "falla"}, d \in {{}, {"A"}} :
    llamadas.definirTarea < MaxDefinir => ENABLED definirTarea(n, f, d)

C13_DefinirDeNuevo ==
  [][C13_PasoDefinir /\ C13_PasoConArgumentos]_vars /\ []C13_NuncaLanza

C13_Testigo ==
  /\ llamadas.iniciar = 1
  /\ Devuelta(1)
  /\ resultados[1]["A"] = Valor("A")
  /\ tareas["A"] = "falla"
  /\ dependencias["A"] = {"A"}
  /\ estado["A"] = "pendiente"
  /\ "A" \in pendientes
  /\ estado["B"] = "fallido"
  /\ "B" \notin pendientes

(***************************************************************************)
(* A manager whose caller, the definitions made, calls iniciar, awaits it, *)
(* and calls iniciar again, with no definirTarea and no onFallo in         *)
(* between.                                                                *)
(***************************************************************************)
NextRepetida ==
  \/ SinIniciar /\ Definir
  \/ SinIniciar /\ OnFallo
  \/ EnReposo /\ Iniciar
  \/ Resuelve \/ Falla \/ Borrar \/ Siguiente
SpecRepetida == Init /\ [][NextRepetida]_vars

(***************************************************************************)
(* C19.  A run started after an earlier run on the same manager has        *)
(* returned (all done, or stuck), with no definition and no alternative    *)
(* registered in between, invokes no body and leaves the estado of every   *)
(* task and pendientes exactly as the earlier run left them: it returns    *)
(* at once, with an empty resultados.                                      *)
(***************************************************************************)
C19_PasoRepetir ==
  \A r \in Corridas :
    (PasoIniciar(r) /\ llamadas.iniciar >= 1) =>
      /\ UNCHANGED gestor
      /\ pc'[r] = "devuelta"
      /\ curso' = curso
      /\ TodasLibres(r)
      /\ invocaciones'[r] = sinInvocaciones
      /\ resultados'[r] = sinResultados

C19_TrasRepetir ==
  \A r \in Corridas :
    (llamadas.iniciar >= 2 /\ pc[r] # "nueva") =>
      /\ Devuelta(r)
      /\ invocaciones[r] = sinInvocaciones
      /\ resultados[r] = sinResultados

C19_RepetirNoCambiaNada == [][C19_PasoRepetir]_vars /\ []C19_TrasRepetir

C19_Testigo ==
  /\ llamadas.iniciar = 2
  /\ Devuelta(1)
  /\ estado["A"] = "completado"
  /\ "A" \notin pendientes
  /\ estado["B"] = "fallido"
  /\ estado["C"] = "pendiente"
  /\ "C" \in pendientes
  /\ dependencias["C"] = {"B"}
  /\ invocaciones[1] = sinInvocaciones

(***************************************************************************)
(* A manager whose caller does not await iniciar before calling it again   *)
(* (iniciar is async, lines 83-102: the call returns a promise at its      *)
(* first await): the runs go on interleaved at their awaits.               *)
(***************************************************************************)
OnFalloDeA == \E a \in {"A", "B"} : onFallo("A", a)
NextSolapadas ==
  \/ SinIniciar /\ DefinirDos
  \/ SinIniciar /\ OnFalloDeA
  \/ Iniciar
  \/ Resuelve \/ Falla \/ Borrar \/ Siguiente
SpecSolapadas == Init /\ [][NextSolapadas]_vars

(***************************************************************************)
(* C18.  Two runs on one manager that overlap share pendientes and estado  *)
(* with nothing to keep them apart: a pass of the loop of one run          *)
(* dispatches every ready task of pendientes, the tasks the other run has  *)
(* dispatched and not yet deleted among them, so that the body of such a   *)
(* task is invoked by each of the two runs.                                *)
(***************************************************************************)
C18_PasoSinExclusion ==
  \A r \in Corridas, q \in Corridas, t \in Nombres :
    (/\ q # r
     /\ PasoDeVuelta(r)
     /\ curso[q][t].fase = "await"
     /\ t \in pendientes
     /\ \A dep \in dependencias[t] : estado[dep] = "completado")
    => /\ curso'[q][t] = curso[q][t]
       /\ curso'[r][t].fase = "await"
       /\ curso'[r][t].nombre = t
       /\ invocaciones'[q][t] >= 1
       /\ invocaciones'[r][t] >= 1
       /\ t \in pendientes'

C18_DosCorridasUnaTarea == [][C18_PasoSinExclusion]_vars

C18_Testigo ==
  /\ pc[1] = "espera"
  /\ pc[2] = "espera"
  /\ "A" \in pendientes
  /\ curso[1]["A"] = EnEspera("A", "ok")
  /\ curso[2]["A"] = EnEspera("A", "ok")
  /\ invocaciones[1]["A"] = 1
  /\ invocaciones[2]["A"] = 1

(***************************************************************************)
(* A manager whose methods are called in any order and at any moment:      *)
(* definirTarea and onFallo are synchronous and may be called (by the      *)
(* caller, or by the body of a task) while a call of iniciar is suspended  *)
(* at an await, and iniciar may be called again before it has returned.    *)
(***************************************************************************)
NextDurante ==
  \/ DefinirDos \/ OnFalloDeA \/ Iniciar
  \/ Resuelve \/ Falla \/ Borrar \/ Siguiente
SpecDurante == Init /\ [][NextDurante]_vars

(***************************************************************************)
(* C21.  With every registered function a function, the error 'no          *)
(* definida' of ejecutarTarea (lines 59-60) is unreachable from iniciar:   *)
(* the names a wave dispatches come from pendientes, which holds           *)
(* registered names only, an alternative is executed only once             *)
(* tareas.has has been checked for it, and no task is ever unregistered.   *)
(* So iniciar never rejects for a task not defined, whatever the names of  *)
(* the dependencies and of the alternatives are.                           *)
(***************************************************************************)
C21_SinLanzar ==
  /\ pendientes \subseteq Registradas
  /\ \A r \in Corridas :
       /\ pc[r] # "lanzada"
       /\ tareasListas[r] \subseteq Registradas
       /\ \A m \in Nombres :
            /\ curso[r][m].fase # "lanzada"
            /\ curso[r][m].fase = "await" =>
                 /\ curso[r][m].nombre \in Registradas
                 /\ curso[r][m].fn \in Funciones

C21_PasoRegistro ==
  \A n \in Nombres : tareas[n] # Ninguna => tareas'[n] # Ninguna

C21_NoDefinidaInalcanzable == []C21_SinLanzar /\ [][C21_PasoRegistro]_vars

(* A task has failed whose alternative names no registered task, and      *)
(* the run has returned.                                                   *)
C21_Testigo ==
  /\ Devuelta(1)
  /\ tareas["A"] = "falla"
  /\ estado["A"] = "fallido"
  /\ invocaciones[1]["A"] = 1
  /\ enCasoDeFallo["A"] = "B"
  /\ tareas["B"] = Ninguna
  /\ "A" \notin pendientes

(***************************************************************************)
(* C22.  In every state reachable by calls of definirTarea, onFallo and    *)
(* iniciar and the steps of the runs, in any order: every name in          *)
(* pendientes is a registered task, the estado of every registered task    *)
(* is 'pendiente', 'completado' or 'fallido', and every registered task    *)
(* whose estado is 'pendiente' is in pendientes (a name leaves pendientes  *)
(* only after an execution has set its estado to 'completado' or           *)
(* 'fallido').                                                             *)
(***************************************************************************)
C22_PendientesYEstado ==
  /\ pendientes \subseteq Registradas
  /\ \A n \in Registradas : estado[n] \in Estados
  /\ \A n \in Registradas : estado[n] = "pendiente" => n \in pendientes

====
